---- MODULE Spec2Model ----
(***************************************************************************)
(* Model of the echo_limiter middleware (package echo_limiter).           *)
(*                                                                         *)
(* The model covers configuration resolution (New, NewWithConfig) and the  *)
(* per-request handler returned by NewWithConfig.  The rate-limit engine   *)
(* (go_limiter.Limiter.Allow) and the next echo handler are external: the  *)
(* engine answers any call with an error or with any Result.               *)
(*                                                                         *)
(* Durations and instants are counted in milliseconds (time.Duration is    *)
(* an int64 of nanoseconds; every duration of the model is a whole number  *)
(* of milliseconds).  Function-typed configuration fields are modelled by  *)
(* the name of the function they hold, "nil" for the nil func.             *)
(***************************************************************************)
EXTENDS Integers, Sequences, FiniteSets, TLC

VARIABLES mw, input, config, limit, now, ticks, req

vars == <<mw, input, config, limit, now, ticks, req>>

(***************************************************************************)
(* Bounds of the model.                                                    *)
(***************************************************************************)
NumRequests == 2
MaxTicks == 1

(***************************************************************************)
(* Constants of the program.                                               *)
(***************************************************************************)
\* The two algorithm identifiers are go_limiter's; the handler only passes
\* them through, and resolution only compares Algorithm with 0.
SlidingWindowAlgorithm == 1
GCRAAlgorithm == 2
DefaultKeyPrefix == "echo_limiter"
defaultMessage == "Too many requests, please try again later."
defaultStatusCode == 429
StatusInternalServerError == 500
Second == 1000
Minute == 60 * Second

Nil == "nil"

\* middleware.DefaultSkipper and the func literals of DefaultConfig / NewWithConfig
DefaultSkipper == "DefaultSkipper"
RealIPKey == "RealIP"
defaultHandler == "defaultHandler"
defaultErrHandler == "defaultErrHandler"

\* DefaultConfig: Rediser, SkipOnError, Handler and ErrHandler are left at
\* their zero values by the composite literal.
DefaultConfig ==
    [ Skipper     |-> DefaultSkipper,
      Rediser     |-> Nil,
      Max         |-> 10,
      Burst       |-> 10,
      StatusCode  |-> defaultStatusCode,
      Message     |-> defaultMessage,
      Algorithm   |-> SlidingWindowAlgorithm,
      Prefix      |-> DefaultKeyPrefix,
      SkipOnError |-> FALSE,
      Period      |-> Minute,
      Key         |-> RealIPKey,
      Handler     |-> Nil,
      ErrHandler  |-> Nil ]

(***************************************************************************)
(* NewWithConfig, lines 107-153: one operator per if statement.            *)
(***************************************************************************)
WithSkipper(c) ==
    IF c.Skipper = Nil THEN [c EXCEPT !.Skipper = DefaultConfig.Skipper] ELSE c

WithMax(c) ==
    IF c.Max = 0 THEN [c EXCEPT !.Max = DefaultConfig.Max] ELSE c

WithBurst(c) ==
    IF c.Burst = 0 THEN [c EXCEPT !.Burst = DefaultConfig.Burst] ELSE c

\* variant: the condition of the previous if statement is repeated
WithStatusCodeOnBurst(c) ==
    IF c.Burst = 0 THEN [c EXCEPT !.StatusCode = DefaultConfig.StatusCode] ELSE c

WithStatusCode(c) ==
    IF c.StatusCode = 0 THEN [c EXCEPT !.StatusCode = DefaultConfig.StatusCode] ELSE c

WithMessage(c) ==
    IF c.Message = "" THEN [c EXCEPT !.Message = DefaultConfig.Message] ELSE c

WithAlgorithm(c) ==
    IF c.Algorithm = 0 THEN [c EXCEPT !.Algorithm = DefaultConfig.Algorithm] ELSE c

WithPrefix(c) ==
    IF c.Prefix = "" THEN [c EXCEPT !.Prefix = DefaultConfig.Prefix] ELSE c

WithPeriod(c) ==
    IF c.Period = 0 THEN [c EXCEPT !.Period = DefaultConfig.Period] ELSE c

WithKey(c) ==
    IF c.Key = Nil THEN [c EXCEPT !.Key = DefaultConfig.Key] ELSE c

WithHandler(c) ==
    IF c.Handler = Nil THEN [c EXCEPT !.Handler = defaultHandler] ELSE c

WithErrHandler(c) ==
    IF c.ErrHandler = Nil THEN [c EXCEPT !.ErrHandler = defaultErrHandler] ELSE c

\* variant: Burst defaults to the rate, and before the rate has its default
WithBurstFromMax(c) ==
    IF c.Burst = 0 THEN [c EXCEPT !.Burst = c.Max] ELSE c

ResolveConfigBurstFirst(c) ==
    WithErrHandler(WithHandler(WithKey(WithPeriod(WithPrefix(WithAlgorithm(
        WithMessage(WithStatusCode(WithMax(WithBurstFromMax(WithSkipper(c)))))))))))

ResolveConfig(c) ==
    WithErrHandler(WithHandler(WithKey(WithPeriod(WithPrefix(WithAlgorithm(
        WithMessage(WithStatusCode(WithBurst(WithMax(WithSkipper(c)))))))))))

\* variant: rate and burst exchanged in the composite literal
NewLimitSwapped(c) ==
    [ Period    |-> c.Period,
      Algorithm |-> c.Algorithm,
      Rate      |-> c.Burst,
      Burst     |-> c.Max ]

\* limit := &go_limiter.Limit{...}
NewLimit(c) ==
    [ Period    |-> c.Period,
      Algorithm |-> c.Algorithm,
      Rate      |-> c.Max,
      Burst     |-> c.Burst ]

NoConfig == [none |-> TRUE]
NoLimit == [none |-> TRUE]

(***************************************************************************)
(* Requests, the engine's answers and the caller's own functions.          *)
(***************************************************************************)
Requests == 1..NumRequests

\* echo.Context as far as the middleware and the configured functions read it
Contexts ==
    { [ip |-> "10.0.0.1", path |-> "/"],
      [ip |-> "10.0.0.2", path |-> "/health"] }

NoContext == [ip |-> "", path |-> ""]

\* go_limiter.Result: any answer the engine may give
EngineResults ==
    { [Allowed |-> TRUE,  Remaining |-> 2, RetryAfter |-> -1,  ResetAfter |-> 5 * Second],
      [Allowed |-> FALSE, Remaining |-> 0, RetryAfter |-> 700, ResetAfter |-> 700] }

NoResult == [Allowed |-> FALSE, Remaining |-> 0, RetryAfter |-> 0, ResetAfter |-> 0]

EngineErrors == { "redis: connection refused" }

\* Functions a caller may put in Config
HealthSkipper == "HealthSkipper"
PathKey == "PathKey"
CustomHandler == "CustomHandler"
CustomErrHandler == "CustomErrHandler"

\* config.Skipper(ctx)
ApplySkipper(f, ctx) ==
    IF f = HealthSkipper THEN ctx.path = "/health" ELSE FALSE

\* config.Key(ctx)
ApplyKey(f, ctx) ==
    IF f = PathKey THEN ctx.path ELSE ctx.ip

(***************************************************************************)
(* strconv.FormatInt(n, 10) / strconv.Itoa(n), and the reading of a        *)
(* decimal string back (what a client does with the header).               *)
(***************************************************************************)
Digits == "0123456789"

RECURSIVE FormatNat(_)
FormatNat(n) ==
    IF n < 10 THEN SubSeq(Digits, n + 1, n + 1)
    ELSE FormatNat(n \div 10) \o SubSeq(Digits, (n % 10) + 1, (n % 10) + 1)

FormatInt(n) == IF n < 0 THEN "-" \o FormatNat(-n) ELSE FormatNat(n)

DigitValue(ch) == CHOOSE d \in 0..9 : SubSeq(Digits, d + 1, d + 1) = ch

RECURSIVE ParseNat(_)
ParseNat(s) ==
    IF Len(s) = 1 THEN DigitValue(s)
    ELSE 10 * ParseNat(SubSeq(s, 1, Len(s) - 1)) + DigitValue(SubSeq(s, Len(s), Len(s)))

ParseInt(s) ==
    IF SubSeq(s, 1, 1) = "-" THEN -ParseNat(SubSeq(s, 2, Len(s))) ELSE ParseNat(s)

\* time.Now().Add(d).Unix(): whole seconds since the epoch of the instant t + d
UnixAfter(t, d) == (t + d) \div Second

(***************************************************************************)
(* Response headers.                                                       *)
(***************************************************************************)
HeaderLimit == "X-RateLimit-Limit"
HeaderRemaining == "X-RateLimit-Remaining"
HeaderReset == "X-RateLimit-Reset"
HeaderRetryAfter == "Retry-After"

RateLimitHeaders == {HeaderLimit, HeaderRemaining, HeaderReset}
HeaderNames == RateLimitHeaders \cup {HeaderRetryAfter}

NoHeaders == [h \in HeaderNames |-> ""]

\* what a handler hands back: return value and the response it wrote
NoReturn == [kind |-> "pending", code |-> 0, message |-> ""]
NoResponse == [status |-> 0, body |-> ""]

InitRequest ==
    [ pc       |-> "idle",
      ctx      |-> NoContext,
      calls    |-> <<>>,
      got      |-> "none",
      canceled |-> FALSE,
      result   |-> NoResult,
      err      |-> "",
      stamp    |-> 0,
      header   |-> NoHeaders,
      response |-> NoResponse,
      ret      |-> NoReturn,
      events   |-> <<>> ]

\* ctx.String(code, body): writes the response, returns nil
StringResponse(code, body) ==
    [ret |-> [kind |-> "nil", code |-> 0, message |-> ""],
     response |-> [status |-> code, body |-> body]]

\* config.Handler(ctx); the default is the closure of lines 144-146
ApplyHandler(f, c, q) ==
    IF f = defaultHandler THEN StringResponse(c.StatusCode, c.Message)
    ELSE StringResponse(503, "slow down")

\* variant: the default the doc comment of lines 88-91 describes
ApplyErrHandlerAsCommented(f, e, q) ==
    IF f = defaultErrHandler
    THEN StringResponse(defaultStatusCode, defaultMessage)
    ELSE StringResponse(502, "limiter unavailable")

\* config.ErrHandler(err, ctx); the default is the closure of lines 150-152,
\* which writes nothing and returns echo.NewHTTPError(500, err)
ApplyErrHandler(f, e, q) ==
    IF f = defaultErrHandler
    THEN [ret |-> [kind |-> "HTTPError", code |-> StatusInternalServerError, message |-> e],
          response |-> q.response]
    ELSE StringResponse(502, "limiter unavailable")

\* next(ctx): the rest of the pipeline (examples/main.go answers 200)
CallNext(q) ==
    [ret |-> [kind |-> "next", code |-> 0, message |-> ""],
     response |-> [status |-> 200, body |-> "Hello, World!"]]

(***************************************************************************)
(* Configurations a caller may supply.                                     *)
(***************************************************************************)
Client == "client"

ZeroConfig ==
    [ Skipper     |-> Nil,
      Rediser     |-> Nil,
      Max         |-> 0,
      Burst       |-> 0,
      StatusCode  |-> 0,
      Message     |-> "",
      Algorithm   |-> 0,
      Prefix      |-> "",
      SkipOnError |-> FALSE,
      Period      |-> 0,
      Key         |-> Nil,
      Handler     |-> Nil,
      ErrHandler  |-> Nil ]

\* every combination of zero and non-zero fields (int fields may be negative)
AllConfigs ==
    [ Skipper     : {Nil, HealthSkipper},
      Rediser     : {Nil, Client},
      Max         : {0, 3, -1},
      Burst       : {0, 5, -2},
      StatusCode  : {0, 503},
      Message     : {"", "slow down"},
      Algorithm   : {0, SlidingWindowAlgorithm, GCRAAlgorithm},
      Prefix      : {"", "app"},
      SkipOnError : {FALSE, TRUE},
      Period      : {0, 10 * Second, -Second},
      Key         : {Nil, PathKey},
      Handler     : {Nil, CustomHandler},
      ErrHandler  : {Nil, CustomErrHandler} ]

\* the configurations the request handler is exercised with
BaseConfig == [ZeroConfig EXCEPT !.Rediser = Client]

ServeConfigs ==
    { ZeroConfig,
      BaseConfig,
      [BaseConfig EXCEPT !.Skipper = HealthSkipper],
      [BaseConfig EXCEPT !.Max = 3, !.Burst = 3, !.Period = 10 * Second,
                         !.Algorithm = GCRAAlgorithm],
      [BaseConfig EXCEPT !.StatusCode = 503, !.Message = "slow down"],
      [BaseConfig EXCEPT !.StatusCode = StatusInternalServerError],
      [BaseConfig EXCEPT !.Prefix = "app"],
      [BaseConfig EXCEPT !.Prefix = "app", !.Key = PathKey],
      [BaseConfig EXCEPT !.SkipOnError = TRUE],
      [BaseConfig EXCEPT !.SkipOnError = TRUE, !.ErrHandler = CustomErrHandler],
      [BaseConfig EXCEPT !.ErrHandler = CustomErrHandler],
      [BaseConfig EXCEPT !.Handler = CustomHandler],
      [BaseConfig EXCEPT !.Skipper = HealthSkipper, !.Max = -1, !.Handler = CustomHandler,
                         !.ErrHandler = CustomErrHandler, !.Key = PathKey],
      [ZeroConfig EXCEPT !.Skipper = HealthSkipper, !.Max = 3, !.SkipOnError = TRUE,
                         !.Handler = CustomHandler, !.ErrHandler = CustomErrHandler] }

(***************************************************************************)
(* Initial state: nothing constructed, no request arrived.                 *)
(***************************************************************************)
StartMillis == 99500
TickMillis == 400

Init ==
    /\ mw = "none"
    /\ input = ZeroConfig
    /\ config = NoConfig
    /\ limit = NoLimit
    /\ now = StartMillis
    /\ ticks = 0
    /\ req = [r \in Requests |-> InitRequest]

(***************************************************************************)
(* NewWithConfig(config), lines 102-200.  Without a redis client it        *)
(* panics; otherwise it resolves the configuration, builds the limit and   *)
(* returns the middleware.                                                 *)
(***************************************************************************)
\* variant: the nil check of line 103 is left out
MissingRediserUnchecked(c) == FALSE

MissingRediser(c) == c.Rediser = Nil

NewWithConfig(c) ==
    /\ mw = "none"
    /\ input' = c
    /\ IF MissingRediser(c)
       THEN /\ mw' = "panicked"
            /\ UNCHANGED <<config, limit>>
       ELSE /\ mw' = "ready"
            /\ config' = ResolveConfig(c)
            /\ limit' = NewLimit(ResolveConfig(c))
    /\ UNCHANGED <<now, ticks, req>>

\* New(rediser), lines 96-100
New(rediser) == NewWithConfig([DefaultConfig EXCEPT !.Rediser = rediser])

\* the clock moves on
Tick ==
    /\ ticks < MaxTicks
    /\ ticks' = ticks + 1
    /\ now' = now + TickMillis
    /\ UNCHANGED <<mw, input, config, limit, req>>

(***************************************************************************)
(* The handler func(ctx echo.Context) error, lines 164-198.                *)
(***************************************************************************)
\* variant: the skipper is never consulted
SkipRequestNever(c, ctx) == FALSE

\* line 165: config.Skipper(ctx)
SkipRequest(c, ctx) == ApplySkipper(c.Skipper, ctx)

\* line 169: the key handed to limiter.Allow
AllowKey(c, ctx) == ApplyKey(c.Key, ctx)

\* variants: engine errors always forwarded / never forwarded
FailOpenAlways(c) == TRUE

FailOpenNever(c) == FALSE

\* line 173: if config.SkipOnError
FailOpen(c) == c.SkipOnError

\* variant: Retry-After carries the raw duration in seconds
DeniedHeadersRelative(h, c, t, res) ==
    [h EXCEPT ![HeaderRetryAfter] = FormatInt(res.RetryAfter \div Second)]

\* variant: the limit header is written on the denied path as well
DeniedHeadersLeak(h, c, t, res) ==
    [h EXCEPT ![HeaderRetryAfter] = FormatInt(UnixAfter(t, res.RetryAfter)),
              ![HeaderLimit] = FormatInt(c.Max)]

\* variant: nothing is written before the handler runs (the header write
\* placed after the config.Handler call)
DeniedHeadersDeferred(h, c, t, res) == h

\* line 186: the Retry-After header
DeniedHeaders(h, c, t, res) ==
    [h EXCEPT ![HeaderRetryAfter] = FormatInt(UnixAfter(t, res.RetryAfter))]

\* variant: limit and remaining swapped
AllowedHeadersSwapped(h, c, t, res) ==
    [h EXCEPT ![HeaderLimit] = FormatInt(res.Remaining),
              ![HeaderRemaining] = FormatInt(c.Max),
              ![HeaderReset] = FormatInt(UnixAfter(t, res.ResetAfter))]

\* lines 193-195: the X-RateLimit-* headers
AllowedHeaders(h, c, t, res) ==
    [h EXCEPT ![HeaderLimit] = FormatInt(c.Max),
              ![HeaderRemaining] = FormatInt(res.Remaining),
              ![HeaderReset] = FormatInt(UnixAfter(t, res.ResetAfter))]

\* return next(ctx), lines 166, 174 and 197
Forwarded(q) ==
    [q EXCEPT !.pc = "done",
              !.events = Append(@, "next"),
              !.ret = CallNext(q).ret,
              !.response = CallNext(q).response]

\* variant: the engine is called before the skipper is consulted
EnterEngineFirst(r, ctx) ==
    /\ mw = "ready"
    /\ req[r].pc = "idle"
    /\ LET q == [req[r] EXCEPT !.ctx = ctx,
                              !.calls = Append(@, [key |-> AllowKey(config, ctx),
                                                   limit |-> limit]),
                              !.events = <<"allow", "skipper">>]
       IN  IF SkipRequest(config, ctx)
           THEN req' = [req EXCEPT ![r] = Forwarded(q)]
           ELSE req' = [req EXCEPT ![r] = [q EXCEPT !.pc = "engine"]]
    /\ UNCHANGED <<mw, input, config, limit, now, ticks>>

\* lines 164-169: a request enters the handler; it is skipped and forwarded,
\* or the engine is called
Enter(r, ctx) ==
    /\ mw = "ready"
    /\ req[r].pc = "idle"
    /\ LET q == [req[r] EXCEPT !.ctx = ctx, !.events = Append(@, "skipper")]
       IN  IF SkipRequest(config, ctx)
           THEN req' = [req EXCEPT ![r] = Forwarded(q)]
           ELSE req' = [req EXCEPT ![r] =
                    [q EXCEPT !.pc = "engine",
                              !.calls = Append(@, [key |-> AllowKey(config, ctx),
                                                   limit |-> limit]),
                              !.events = Append(@, "allow")]]
    /\ UNCHANGED <<mw, input, config, limit, now, ticks>>

\* variant: the error is not logged
EngineFailsSilent(r, e) ==
    /\ req[r].pc = "engine"
    /\ req' = [req EXCEPT ![r] =
                 [@ EXCEPT !.pc = "failed",
                           !.got = "error",
                           !.err = e]]
    /\ UNCHANGED <<mw, input, config, limit, now, ticks>>

\* lines 169-171: Allow returns an error, which is logged
EngineFails(r, e) ==
    /\ req[r].pc = "engine"
    /\ req' = [req EXCEPT ![r] =
                 [@ EXCEPT !.pc = "failed",
                           !.got = "error",
                           !.err = e,
                           !.events = Append(@, "log")]]
    /\ UNCHANGED <<mw, input, config, limit, now, ticks>>

\* variant: the result of config.ErrHandler is not returned, and the handler
\* goes on to next(ctx)
FallbackFallsThrough(r) ==
    /\ req[r].pc = "failed"
    /\ LET q == req[r]
           out == ApplyErrHandler(config.ErrHandler, q.err, q)
       IN  IF FailOpen(config)
           THEN req' = [req EXCEPT ![r] = Forwarded(q)]
           ELSE req' = [req EXCEPT ![r] =
                    Forwarded([q EXCEPT !.events = Append(@, "errhandler")])]
    /\ UNCHANGED <<mw, input, config, limit, now, ticks>>

\* lines 173-177: forward the request, or hand the error to config.ErrHandler
Fallback(r) ==
    /\ req[r].pc = "failed"
    /\ LET q == req[r]
           out == ApplyErrHandler(config.ErrHandler, q.err, q)
       IN  IF FailOpen(config)
           THEN req' = [req EXCEPT ![r] = Forwarded(q)]
           ELSE req' = [req EXCEPT ![r] =
                    [q EXCEPT !.pc = "done",
                              !.events = Append(@, "errhandler"),
                              !.ret = out.ret,
                              !.response = out.response]]
    /\ UNCHANGED <<mw, input, config, limit, now, ticks>>

\* lines 169, 180-186: Allow answers "not allowed"; Retry-After is set
EngineDenies(r, res) ==
    /\ req[r].pc = "engine"
    /\ ~res.Allowed
    /\ req' = [req EXCEPT ![r] =
                 [@ EXCEPT !.pc = "limited",
                           !.got = "result",
                           !.result = res,
                           !.stamp = now,
                           !.header = DeniedHeaders(@, config, now, res),
                           !.events = Append(@, "set-retry-after")]]
    /\ UNCHANGED <<mw, input, config, limit, now, ticks>>

\* variant: a denial is answered through config.ErrHandler
CallHandlerViaErrHandler(r) ==
    /\ req[r].pc = "limited"
    /\ LET q == req[r]
           out == ApplyErrHandler(config.ErrHandler, "rate limit exceeded", q)
       IN  req' = [req EXCEPT ![r] =
                    [q EXCEPT !.pc = "done",
                              !.events = Append(@, "errhandler"),
                              !.ret = out.ret,
                              !.response = out.response]]
    /\ UNCHANGED <<mw, input, config, limit, now, ticks>>

\* line 189: return config.Handler(ctx)
CallHandler(r) ==
    /\ req[r].pc = "limited"
    /\ LET q == req[r]
           out == ApplyHandler(config.Handler, config, q)
       IN  req' = [req EXCEPT ![r] =
                    [q EXCEPT !.pc = "done",
                              !.events = Append(@, "handler"),
                              !.ret = out.ret,
                              !.response = out.response]]
    /\ UNCHANGED <<mw, input, config, limit, now, ticks>>

\* lines 169, 180-195: Allow answers "allowed"; the X-RateLimit-* headers are set
EngineAllows(r, res) ==
    /\ req[r].pc = "engine"
    /\ res.Allowed
    /\ req' = [req EXCEPT ![r] =
                 [@ EXCEPT !.pc = "allowed",
                           !.got = "result",
                           !.result = res,
                           !.stamp = now,
                           !.header = AllowedHeaders(@, config, now, res),
                           !.events = Append(@, "set-ratelimit")]]
    /\ UNCHANGED <<mw, input, config, limit, now, ticks>>

\* line 197: return next(ctx)
Forward(r) ==
    /\ req[r].pc = "allowed"
    /\ req' = [req EXCEPT ![r] = Forwarded(req[r])]
    /\ UNCHANGED <<mw, input, config, limit, now, ticks>>

Construct == \E c \in ServeConfigs : NewWithConfig(c)

ConstructDefault == \E rediser \in {Nil, Client} : New(rediser)

Next ==
    \/ Construct
    \/ ConstructDefault
    \/ Tick
    \/ \E r \in Requests, ctx \in Contexts : Enter(r, ctx)
    \/ \E r \in Requests, e \in EngineErrors : EngineFails(r, e)
    \/ \E r \in Requests : Fallback(r)
    \/ \E r \in Requests, res \in EngineResults : EngineDenies(r, res)
    \/ \E r \in Requests : CallHandler(r)
    \/ \E r \in Requests, res \in EngineResults : EngineAllows(r, res)
    \/ \E r \in Requests : Forward(r)

Spec == Init /\ [][Next]_vars

\* limiter.Allow returns, with an error or with a decision
EngineReturns(r) ==
    \/ \E e \in EngineErrors : EngineFails(r, e)
    \/ \E res \in EngineResults : EngineDenies(r, res)
    \/ \E res \in EngineResults : EngineAllows(r, res)

\* The engine call returns and the functions the handler calls return:
\* a request that entered the handler is not left waiting for ever.
\* One configuration per policy is enough to take every path of the handler.
FairConfigs ==
    { BaseConfig,
      [BaseConfig EXCEPT !.SkipOnError = TRUE],
      [BaseConfig EXCEPT !.Skipper = HealthSkipper, !.Handler = CustomHandler,
                         !.ErrHandler = CustomErrHandler] }

ConstructFair == \E c \in FairConfigs : NewWithConfig(c)

NextFair ==
    \/ ConstructFair
    \/ Tick
    \/ \E r \in Requests, ctx \in Contexts : Enter(r, ctx)
    \/ \E r \in Requests : EngineReturns(r)
    \/ \E r \in Requests : Fallback(r)
    \/ \E r \in Requests : CallHandler(r)
    \/ \E r \in Requests : Forward(r)

SpecFair ==
    /\ Init
    /\ [][NextFair]_vars
    /\ \A r \in Requests :
          /\ WF_vars(EngineReturns(r))
          /\ WF_vars(Fallback(r))
          /\ WF_vars(CallHandler(r))
          /\ WF_vars(Forward(r))

\* The request's context (ctx.Request().Context()) is canceled or times out
\* while Allow is outstanding.  Line 169 hands Allow no context and the
\* handler never reads one, so nothing but the flag changes.
Cancel(r) ==
    /\ req[r].pc = "engine"
    /\ ~req[r].canceled
    /\ req' = [req EXCEPT ![r].canceled = TRUE]
    /\ UNCHANGED <<mw, input, config, limit, now, ticks>>

NextCancel == Next \/ \E r \in Requests : Cancel(r)

\* the handler with clients that may give up while the engine is consulted
SpecCancel == Init /\ [][NextCancel]_vars

\* configuration resolution alone, over every combination of fields
\* the caller has written its Config literal (input) and now hands it over
InitConfig ==
    /\ mw = "none"
    /\ input \in AllConfigs
    /\ config = NoConfig
    /\ limit = NoLimit
    /\ now = StartMillis
    /\ ticks = 0
    /\ req = [r \in Requests |-> InitRequest]

ConstructInput == NewWithConfig(input)

\* NewWithConfig called once more with the same Config literal: a second
\* instance, whose configuration and limit take the place of the first's
ConstructTwin ==
    /\ mw = "ready"
    /\ ~MissingRediser(input)
    /\ mw' = "twin"
    /\ config' = ResolveConfig(input)
    /\ limit' = NewLimit(ResolveConfig(input))
    /\ UNCHANGED <<input, now, ticks, req>>

\* NewWithConfig called with the configuration a first call resolved
Reconstruct ==
    /\ mw = "ready"
    /\ ~MissingRediser(config)
    /\ mw' = "rebuilt"
    /\ config' = ResolveConfig(config)
    /\ limit' = NewLimit(ResolveConfig(config))
    /\ UNCHANGED <<input, now, ticks, req>>

NextConfig == ConstructInput \/ ConstructDefault \/ ConstructTwin \/ Reconstruct

SpecConfig == InitConfig /\ [][NextConfig]_vars

(***************************************************************************)
(* Properties.                                                             *)
(***************************************************************************)
Count(seq, e) == Cardinality({i \in 1..Len(seq) : seq[i] = e})

NextCalls(q) == Count(q.events, "next")

Denied(q) == q.got = "result" /\ ~q.result.Allowed
Allowed(q) == q.got = "result" /\ q.result.Allowed
Failed(q) == q.got = "error"
Skipped(q) == q.pc # "idle" /\ ApplySkipper(config.Skipper, q.ctx)

\* s is the epoch second that contains the instant t + d
SecondOf(s, t, d) == s * Second <= t + d /\ t + d < (s + 1) * Second

\* C1: a request the engine denied with retryAfter R at clock time T carries
\* Retry-After = T+R as epoch seconds, is answered with the result of
\* onLimitReached (by default the resolved statusCode, 429 unless configured,
\* and the resolved message), and is never forwarded to the next handler.
C1_DeniedResponse ==
    \A r \in Requests :
        LET q == req[r] IN
        Denied(q) =>
            /\ q.pc \in {"limited", "done"}
            /\ q.header[HeaderRetryAfter] # ""
            /\ SecondOf(ParseInt(q.header[HeaderRetryAfter]), q.stamp, q.result.RetryAfter)
            /\ NextCalls(q) = 0
            /\ q.pc = "done" =>
                /\ Count(q.events, "handler") = 1
                /\ q.ret.kind = "nil"
                /\ IF input.Handler = Nil
                   THEN /\ q.response.status =
                              (IF input.StatusCode = 0 THEN 429 ELSE input.StatusCode)
                        /\ q.response.body =
                              (IF input.Message = "" THEN defaultMessage ELSE input.Message)
                   ELSE q.response = [status |-> 503, body |-> "slow down"]

C1_Witness ==
    \E r \in Requests :
        /\ Denied(req[r]) /\ req[r].pc = "done"
        /\ input.Handler = Nil /\ input.StatusCode = 0
        /\ req[r].result.RetryAfter = 700
        /\ ParseInt(req[r].header[HeaderRetryAfter]) = (req[r].stamp \div Second) + 1
        /\ req[r].response.status = 429

\* C2: a request the engine allowed with remaining N and resetAfter D at clock
\* time T carries X-RateLimit-Limit = resolved maxRate, X-RateLimit-Remaining
\* = N and X-RateLimit-Reset = T+D as epoch seconds, and is then forwarded.
C2_AllowedResponse ==
    \A r \in Requests :
        LET q == req[r] IN
        Allowed(q) =>
            /\ q.pc \in {"allowed", "done"}
            /\ \A h \in RateLimitHeaders : q.header[h] # ""
            /\ ParseInt(q.header[HeaderLimit]) = (IF input.Max = 0 THEN 10 ELSE input.Max)
            /\ ParseInt(q.header[HeaderRemaining]) = q.result.Remaining
            /\ SecondOf(ParseInt(q.header[HeaderReset]), q.stamp, q.result.ResetAfter)
            /\ q.pc = "done" => (NextCalls(q) = 1 /\ q.ret.kind = "next")

C2_Witness ==
    \E r \in Requests :
        /\ Allowed(req[r]) /\ req[r].pc = "done"
        /\ req[r].result.Remaining = 2
        /\ req[r].header[HeaderRemaining] = "2"
        /\ req[r].header[HeaderLimit] = "3"
        /\ ParseInt(req[r].header[HeaderReset]) = (req[r].stamp \div Second) + 5
        /\ NextCalls(req[r]) = 1

\* C3: a request for which skip(request) is true is forwarded to the next
\* handler with no Allow call (so no key reaches the engine) and with none
\* of the four rate-limit headers set.
C3_SkippedUntouched ==
    \A r \in Requests :
        LET q == req[r] IN
        Skipped(q) =>
            /\ q.pc = "done"
            /\ q.calls = <<>>
            /\ Count(q.events, "allow") = 0
            /\ q.got = "none"
            /\ \A h \in HeaderNames : q.header[h] = ""
            /\ NextCalls(q) = 1
            /\ q.ret.kind = "next"

C3_Witness ==
    \E r \in Requests :
        /\ req[r].pc = "done"
        /\ input.Skipper = HealthSkipper
        /\ req[r].ctx.path = "/health"
        /\ NextCalls(req[r]) = 1
        /\ req[r].calls = <<>>

\* C4: when the engine call fails and skipOnEngineError is false, the
\* response is exactly what onEngineError(err, request) gives (by default an
\* HTTP error 500 carrying err) and the next handler is not invoked.
C4_FailClosed ==
    \A r \in Requests :
        LET q == req[r] IN
        (Failed(q) /\ ~input.SkipOnError /\ q.pc = "done") =>
            /\ NextCalls(q) = 0
            /\ Count(q.events, "errhandler") = 1
            /\ IF input.ErrHandler = Nil
               THEN /\ q.ret = [kind |-> "HTTPError", code |-> 500, message |-> q.err]
                    /\ q.response = NoResponse
               ELSE /\ q.ret.kind = "nil"
                    /\ q.response = [status |-> 502, body |-> "limiter unavailable"]

C4_Witness ==
    \E r \in Requests :
        /\ Failed(req[r]) /\ req[r].pc = "done"
        /\ ~input.SkipOnError /\ input.ErrHandler = Nil
        /\ req[r].ret.code = 500

\* C5: when the engine call fails and skipOnEngineError is true, the request
\* is forwarded, onEngineError is not invoked even if one was supplied, and
\* none of the rate-limit headers is set.
C5_FailOpen ==
    \A r \in Requests :
        LET q == req[r] IN
        (Failed(q) /\ input.SkipOnError /\ q.pc = "done") =>
            /\ NextCalls(q) = 1
            /\ q.ret.kind = "next"
            /\ Count(q.events, "errhandler") = 0
            /\ \A h \in HeaderNames : q.header[h] = ""

C5_Witness ==
    \E r \in Requests :
        /\ Failed(req[r]) /\ req[r].pc = "done"
        /\ input.SkipOnError /\ input.ErrHandler = CustomErrHandler
        /\ NextCalls(req[r]) = 1

\* C6: the key handed to every Allow call is the resolved keyPrefix, then
\* ":", then keyFn(request).
C6_KeyHasPrefix ==
    \A r \in Requests :
        \A i \in 1..Len(req[r].calls) :
            req[r].calls[i].key =
                config.Prefix \o ":" \o ApplyKey(config.Key, req[r].ctx)

\* C7: the X-RateLimit-* headers are set only after an allowed=true decision,
\* Retry-After only after an allowed=false decision, never both on one
\* request, and neither on the skip and engine-error paths.
C7_HeadersByDecision ==
    \A r \in Requests :
        LET q == req[r]
            quota == \E h \in RateLimitHeaders : q.header[h] # ""
            retry == q.header[HeaderRetryAfter] # ""
        IN  /\ quota => Allowed(q)
            /\ retry => Denied(q)
            /\ ~(quota /\ retry)
            /\ (Skipped(q) \/ Failed(q)) => (~quota /\ ~retry)

C7_Witness ==
    \E r1, r2 \in Requests :
        /\ req[r1].pc = "done" /\ Denied(req[r1])
        /\ req[r1].header[HeaderRetryAfter] # "" /\ req[r1].header[HeaderLimit] = ""
        /\ req[r2].pc = "done" /\ Allowed(req[r2])
        /\ req[r2].header[HeaderRetryAfter] = "" /\ req[r2].header[HeaderLimit] # ""

\* C8: resolution is field by field: a field left zero takes its documented
\* default, a non-zero field is kept, whatever the other fields are.
C8_FieldByField ==
    mw = "ready" =>
        /\ config.Skipper = (IF input.Skipper = Nil THEN DefaultSkipper ELSE input.Skipper)
        /\ config.Max = (IF input.Max = 0 THEN 10 ELSE input.Max)
        /\ config.Burst = (IF input.Burst = 0 THEN 10 ELSE input.Burst)
        /\ config.StatusCode = (IF input.StatusCode = 0 THEN 429 ELSE input.StatusCode)
        /\ config.Message = (IF input.Message = "" THEN defaultMessage ELSE input.Message)
        /\ config.Algorithm =
              (IF input.Algorithm = 0 THEN SlidingWindowAlgorithm ELSE input.Algorithm)
        /\ config.Prefix = (IF input.Prefix = "" THEN "echo_limiter" ELSE input.Prefix)
        /\ config.Period = (IF input.Period = 0 THEN 60 * Second ELSE input.Period)
        /\ config.Key = (IF input.Key = Nil THEN RealIPKey ELSE input.Key)
        /\ config.Handler = (IF input.Handler = Nil THEN defaultHandler ELSE input.Handler)
        /\ config.ErrHandler =
              (IF input.ErrHandler = Nil THEN defaultErrHandler ELSE input.ErrHandler)
        /\ config.Rediser = input.Rediser
        /\ config.SkipOnError = input.SkipOnError
        /\ \A ctx \in Contexts :
              /\ config.Skipper = DefaultSkipper => ~ApplySkipper(config.Skipper, ctx)
              /\ config.Key = RealIPKey => ApplyKey(config.Key, ctx) = ctx.ip

C8_Witness ==
    /\ mw = "ready"
    /\ input.Max = 3 /\ config.Max = 3
    /\ input.Algorithm = 0 /\ config.Algorithm = SlidingWindowAlgorithm
    /\ input.Burst = 0 /\ config.Burst = 10
    /\ input.StatusCode = 503 /\ config.StatusCode = 503
    /\ input.Period = -Second /\ config.Period = -Second

\* C9: after resolution every numeric field (maxRate, burst, period,
\* statusCode, algorithm) is > 0, and so are the Limit's rate, burst, period.
C9_NumericPositive ==
    mw = "ready" =>
        /\ config.Max > 0 /\ config.Burst > 0 /\ config.Period > 0
        /\ config.StatusCode > 0 /\ config.Algorithm > 0
        /\ limit.Rate > 0 /\ limit.Burst > 0 /\ limit.Period > 0

\* C10: construction without an engine handle fails: no middleware exists,
\* and no request-handling step is ever taken for it.
C10_NoEngineNoMiddleware ==
    /\ (mw # "none" /\ input.Rediser = Nil) =>
          /\ mw = "panicked"
          /\ config = NoConfig /\ limit = NoLimit
          /\ \A r \in Requests : req[r] = InitRequest
    /\ (\E r \in Requests : req[r] # InitRequest) =>
          (mw = "ready" /\ input.Rediser # Nil)

C10_Witness ==
    /\ mw = "panicked"
    /\ input.Rediser = Nil
    /\ input.Handler = CustomHandler
    /\ ticks = MaxTicks

RECURSIVE SumCalls(_)
SumCalls(S) ==
    IF S = {} THEN 0
    ELSE LET r == CHOOSE x \in S : TRUE
         IN  Len(req[r].calls) + SumCalls(S \ {r})

\* C11: in every interleaving each non-skipped request makes exactly one
\* Allow call, with its own key, each skipped request makes none, and the
\* number of Allow calls equals the number of non-skipped requests that have
\* passed the engine step.
C11_OneAllowPerRequest ==
    /\ \A r \in Requests :
          LET q == req[r] IN
          /\ Len(q.calls) = Count(q.events, "allow")
          /\ Skipped(q) => Len(q.calls) = 0
          /\ (q.pc # "idle" /\ ~Skipped(q)) =>
                /\ Len(q.calls) = 1
                /\ q.calls[1].key = ApplyKey(config.Key, q.ctx)
          /\ q.pc = "idle" => Len(q.calls) = 0
    /\ SumCalls(Requests) =
          Cardinality({r \in Requests : req[r].pc # "idle" /\ ~Skipped(req[r])})

C11_Witness ==
    \E r1, r2 \in Requests :
        /\ r1 # r2
        /\ req[r1].pc = "engine" /\ req[r2].pc = "engine"
        /\ SumCalls(Requests) = 2

\* C12: every Allow call of an instance receives the same Limit, whose period,
\* algorithm, rate and burst are the resolved period, algorithm, maxRate and
\* burst; no step taken after construction changes the resolved
\* configuration or the Limit.
C12_LimitPassedUnchanged ==
    /\ [](\A r \in Requests : \A i \in 1..Len(req[r].calls) :
            /\ req[r].calls[i].limit = limit
            /\ req[r].calls[i].limit.Period = config.Period
            /\ req[r].calls[i].limit.Algorithm = config.Algorithm
            /\ req[r].calls[i].limit.Rate = config.Max
            /\ req[r].calls[i].limit.Burst = config.Burst)
    /\ [][mw = "ready" => (config' = config /\ limit' = limit)]_vars

C12_Witness ==
    \E r1, r2 \in Requests :
        /\ r1 # r2
        /\ req[r1].pc = "done" /\ Len(req[r1].calls) = 1
        /\ req[r2].pc = "engine" /\ Len(req[r2].calls) = 1
        /\ req[r1].calls[1].limit = req[r2].calls[1].limit
        /\ req[r1].calls[1].limit.Rate = -1
        /\ req[r1].calls[1].limit.Burst = 10
        /\ input.Max = -1

\* the status a client sees: the one written, or the code of the returned
\* *echo.HTTPError
StatusOf(q) == IF q.ret.kind = "HTTPError" THEN q.ret.code ELSE q.response.status

\* an engine error answered by the default onEngineError (fail-closed) and a
\* denial answered by the default onLimitReached, under one configuration
ErrorAndDenial(e, d) ==
    /\ input.ErrHandler = Nil /\ ~input.SkipOnError /\ input.Handler = Nil
    /\ Failed(e) /\ e.pc = "done"
    /\ Denied(d) /\ d.pc = "done"

C14_HandlersDisjoint ==
    \A r \in Requests :
        LET q == req[r]
            limitReached == Count(q.events, "handler")
            engineError == Count(q.events, "errhandler")
        IN  /\ limitReached > 0 => Denied(q)
            /\ engineError > 0 => (Failed(q) /\ ~input.SkipOnError)
            /\ Denied(q) => engineError = 0
            /\ Failed(q) => limitReached = 0
            /\ limitReached + engineError <= 1

C14_Witness ==
    \E r1, r2 \in Requests :
        /\ req[r1].pc = "done" /\ Denied(req[r1])
        /\ req[r1].events = <<"skipper", "allow", "set-retry-after", "handler">>
        /\ req[r2].pc = "done" /\ Failed(req[r2])
        /\ req[r2].events = <<"skipper", "allow", "log", "errhandler">>

\* a occurs in seq, and before every occurrence of b
Precedes(seq, a, b) ==
    /\ \E i \in 1..Len(seq) : seq[i] = a
    /\ \A j \in 1..Len(seq) : seq[j] = b => \E i \in 1..(j - 1) : seq[i] = a

\* C15: every engine-call failure is logged when it occurs, before the
\* fallback outcome, under both policies: the log record precedes the forward
\* (skipOnEngineError true) or the onEngineError call (false).
C15_LoggedBeforeFallback ==
    \A r \in Requests :
        LET q == req[r] IN
        Failed(q) =>
            /\ Count(q.events, "log") = 1
            /\ Precedes(q.events, "log", "next")
            /\ Precedes(q.events, "log", "errhandler")
            /\ q.pc = "done" =>
                  IF input.SkipOnError
                  THEN q.events = <<"skipper", "allow", "log", "next">>
                  ELSE q.events = <<"skipper", "allow", "log", "errhandler">>

C15_Witness ==
    \E r1, r2 \in Requests :
        /\ input.SkipOnError
        /\ Failed(req[r1]) /\ req[r1].pc = "failed"
        /\ req[r1].events = <<"skipper", "allow", "log">>
        /\ Failed(req[r2]) /\ req[r2].pc = "done"
        /\ req[r2].events = <<"skipper", "allow", "log", "next">>

\* C16: a request whose context is canceled while the Allow call is
\* outstanding goes through the engine-error path; it never reaches the
\* allow or the deny path.
C16_CanceledTakesErrorPath ==
    \A r \in Requests :
        LET q == req[r] IN
        q.canceled =>
            /\ q.got # "result"
            /\ Count(q.events, "set-ratelimit") = 0
            /\ Count(q.events, "set-retry-after") = 0
            /\ Count(q.events, "handler") = 0
            /\ q.pc = "done" => Failed(q)

C18_HeadersBeforeHandlers ==
    \A r \in Requests :
        LET q == req[r] IN
        /\ q.pc = "limited" =>
              (q.header[HeaderRetryAfter] # "" /\ Count(q.events, "handler") = 0)
        /\ Count(q.events, "handler") > 0 =>
              /\ Precedes(q.events, "set-retry-after", "handler")
              /\ q.header[HeaderRetryAfter] # ""
        /\ q.pc = "allowed" =>
              /\ \A h \in RateLimitHeaders : q.header[h] # ""
              /\ NextCalls(q) = 0
        /\ (Allowed(q) /\ NextCalls(q) > 0) =>
              /\ Precedes(q.events, "set-ratelimit", "next")
              /\ \A h \in RateLimitHeaders : q.header[h] # ""

C18_Witness ==
    \E r1, r2 \in Requests :
        /\ req[r1].pc = "limited"
        /\ req[r1].header[HeaderRetryAfter] # ""
        /\ req[r1].response = NoResponse
        /\ req[r2].pc = "done"
        /\ req[r2].events = <<"skipper", "allow", "set-ratelimit", "next">>

\* the four terminal outcomes of a request
ForwardUnmodified(q) ==
    /\ NextCalls(q) = 1 /\ q.ret.kind = "next"
    /\ \A h \in HeaderNames : q.header[h] = ""
    /\ Count(q.events, "handler") = 0 /\ Count(q.events, "errhandler") = 0

ErrorResponse(q) ==
    /\ Count(q.events, "errhandler") = 1
    /\ NextCalls(q) = 0 /\ Count(q.events, "handler") = 0

DenyResponse(q) ==
    /\ Count(q.events, "handler") = 1
    /\ NextCalls(q) = 0 /\ Count(q.events, "errhandler") = 0

ForwardWithHeaders(q) ==
    /\ NextCalls(q) = 1 /\ q.ret.kind = "next"
    /\ \A h \in RateLimitHeaders : q.header[h] # ""
    /\ Count(q.events, "handler") = 0 /\ Count(q.events, "errhandler") = 0

Outcomes(q) ==
    (IF ForwardUnmodified(q) THEN {"FORWARD_UNMODIFIED"} ELSE {})
    \cup (IF ErrorResponse(q) THEN {"ERROR_RESPONSE"} ELSE {})
    \cup (IF DenyResponse(q) THEN {"DENY_RESPONSE"} ELSE {})
    \cup (IF ForwardWithHeaders(q) THEN {"FORWARD"} ELSE {})

\* C19: when the engine call and the invoked handlers return, every request
\* that entered the handler terminates, in exactly one of FORWARD_UNMODIFIED,
\* ERROR_RESPONSE, DENY_RESPONSE and FORWARD, and the next handler is invoked
\* at most once per request.
C19_TerminatesInOneOutcome ==
    /\ [](\A r \in Requests :
            /\ NextCalls(req[r]) <= 1
            /\ req[r].pc = "done" => Cardinality(Outcomes(req[r])) = 1
            /\ req[r].pc # "done" => Outcomes(req[r]) = {})
    /\ \A r \in Requests : (req[r].pc # "idle") ~> (req[r].pc = "done")

C19_Witness ==
    \E r1, r2 \in Requests :
        /\ req[r1].pc = "done" /\ Outcomes(req[r1]) = {"DENY_RESPONSE"}
        /\ req[r2].pc = "done" /\ Outcomes(req[r2]) = {"FORWARD"}

====
